---------------------------- MODULE Spec2Model ----------------------------
(***************************************************************************)
(* A model of src/app.py, the Streamlit script of the YouTube video        *)
(* summarizer.  Python strings are TLA+ strings (TLC evaluates Len, SubSeq *)
(* and \o on them); a Python list is a sequence; a dict is a record.       *)
(* Every button press or widget edit re-executes the script from the top;  *)
(* a run is modelled statement group by statement group (pc), each call to *)
(* an external service (transcript service, HTTP, hosted model) being a    *)
(* nondeterministic choice over its outcomes.                              *)
(***************************************************************************)
EXTENDS Integers, Sequences, FiniteSets, TLC

VARIABLES
    youtube_url,      \* st.text_input value (line 168)
    batch_urls,       \* st.text_area value (line 280)
    show_analysis,    \* sidebar checkbox (line 160)
    show_keywords,    \* sidebar checkbox (line 161)
    show_sentiment,   \* sidebar checkbox (line 162)
    pressed,          \* the button whose press triggered the current run
    pc,               \* position of the current run in the script
    transcript_text,  \* script global of the current run
    video_id,         \* script global of the current run
    metadata,         \* script global of the current run
    summary,          \* script global of the current run
    analysis,         \* script global of the current run
    keywords,         \* script global of the current run
    sentiment,        \* script global of the current run
    urls,             \* batch: the trimmed non-blank lines (line 287)
    i,                \* batch: loop index (line 295), 0-based
    batch_results,    \* batch: accumulated records (line 290)
    progress,         \* batch: values handed to progress_bar.progress, as <<k, n>> for k/n
    status_text,      \* batch: last text of the status placeholder
    errors,           \* st.error messages of the current run
    calls,            \* external calls of the current run, in order
    page,             \* buttons rendered by the current (or last) run
    downloads,        \* st.download_button payloads offered by the current run
    table,            \* batch: the rows handed to st.dataframe (line 321)
    exception,        \* whether an uncaught exception ended the current run
    extracted,        \* the returns of extract_transcript in the current run
    call              \* the function call of the pure-function specifications

flowvars == <<youtube_url, batch_urls, show_analysis, show_keywords, show_sentiment,
              pressed, pc, transcript_text, video_id, metadata, summary, analysis,
              keywords, sentiment, urls, i, batch_results, progress, status_text,
              errors, calls, page, downloads, table, exception,
              extracted>>

vars == <<flowvars, call>>

-----------------------------------------------------------------------------
(* Python values and string methods *)

\* Python's None; a reserved string no function of the script can return.
None == "<None>"

\* Python truthiness of an optional string: None and "" are falsy.
Truthy(v) == v # None /\ v # ""

\* The k-th character of s, as a one-character string.
CharAt(s, k) == SubSeq(s, k, k)

\* The ASCII members of str.isspace that occur in the inputs.
Whitespace == {" ", "\t", "\n", "\r"}

\* s[k-1:] in Python terms: the suffix of s from position k (1-based).
From(s, k) == SubSeq(s, k, Len(s))

RECURSIVE lstrip(_)
lstrip(s) ==
    IF s # "" /\ CharAt(s, 1) \in Whitespace THEN lstrip(From(s, 2)) ELSE s

RECURSIVE rstrip(_)
rstrip(s) ==
    IF s # "" /\ CharAt(s, Len(s)) \in Whitespace
    THEN rstrip(SubSeq(s, 1, Len(s) - 1)) ELSE s

\* str.strip()
strip(s) == lstrip(rstrip(s))

\* str.split(sep) for a one-character sep: the pieces between separators,
\* empty pieces kept.
RECURSIVE splitOn(_, _, _)
splitOn(s, sep, cur) ==
    IF s = "" THEN <<cur>>
    ELSE IF CharAt(s, 1) = sep
         THEN <<cur>> \o splitOn(From(s, 2), sep, "")
         ELSE splitOn(From(s, 2), sep, cur \o CharAt(s, 1))

\* str.split(): the maximal runs of non-whitespace characters.
RECURSIVE splitWs(_, _)
splitWs(s, cur) ==
    IF s = "" THEN (IF cur = "" THEN <<>> ELSE <<cur>>)
    ELSE IF CharAt(s, 1) \in Whitespace
         THEN (IF cur = "" THEN <<>> ELSE <<cur>>) \o splitWs(From(s, 2), "")
         ELSE splitWs(From(s, 2), cur \o CharAt(s, 1))

split(s) == splitWs(s, "")

\* sep.join(parts)
RECURSIVE join(_, _)
join(sep, parts) ==
    IF parts = <<>> THEN ""
    ELSE IF Len(parts) = 1 THEN parts[1]
    ELSE parts[1] \o sep \o join(sep, Tail(parts))

\* str.lower() of one character.  "$" stands for U+0130 (capital I with dot
\* above) and "^" for U+0307 (combining dot above): Python lower-cases
\* U+0130 to the two characters "i" U+0307.
LowerChar(c) ==
    CASE c = "$" -> "i^"
      [] c = "A" -> "a" [] c = "B" -> "b" [] c = "C" -> "c" [] c = "D" -> "d"
      [] c = "E" -> "e" [] c = "F" -> "f" [] c = "G" -> "g" [] c = "H" -> "h"
      [] c = "I" -> "i" [] c = "J" -> "j" [] c = "K" -> "k" [] c = "L" -> "l"
      [] c = "M" -> "m" [] c = "N" -> "n" [] c = "O" -> "o" [] c = "P" -> "p"
      [] c = "Q" -> "q" [] c = "R" -> "r" [] c = "S" -> "s" [] c = "T" -> "t"
      [] c = "U" -> "u" [] c = "V" -> "v" [] c = "W" -> "w" [] c = "X" -> "x"
      [] c = "Y" -> "y" [] c = "Z" -> "z"
      [] OTHER -> c

RECURSIVE lower(_)
lower(s) == IF s = "" THEN "" ELSE LowerChar(CharAt(s, 1)) \o lower(From(s, 2))

-----------------------------------------------------------------------------
(* extract_video_id, lines 32-42 *)

\* The three literal alternatives of the first pattern (line 35), in order.
WatchLiteral == "youtube.com/watch?v="
ShortLiteral == "youtu.be/"
EmbedLiteral == "youtube.com/embed/"
FirstPatternLiterals == <<WatchLiteral, ShortLiteral, EmbedLiteral>>

\* The literal head of the second pattern (line 36), and its "v=".
WatchQueryLiteral == "youtube.com/watch?"
VEquals == "v="

\* A variant of IdStopChars: the class [^\n?#], which runs through "&".
IdStopCharsNoAmp == {"\n", "?", "#"}

\* The characters the class [^&\n?#] excludes.
IdStopChars == {"&", "\n", "?", "#"}

InIdClass(c) == c \notin IdStopChars

\* Whether the literal lit occurs in s at position k.
LiteralAt(s, k, lit) ==
    /\ k + Len(lit) - 1 <= Len(s)
    /\ SubSeq(s, k, k + Len(lit) - 1) = lit

\* ([^&\n?#]+) at position k: the longest run of class characters from k
\* (the quantifier is greedy and nothing follows the group).
RECURSIVE IdRunEnd(_, _)
IdRunEnd(s, k) ==
    IF k <= Len(s) /\ InIdClass(CharAt(s, k)) THEN IdRunEnd(s, k + 1) ELSE k - 1

CaptureAt(s, k) == SubSeq(s, k, IdRunEnd(s, k))

\* Whether the group can match at k: at least one class character.
CanCaptureAt(s, k) == k <= Len(s) /\ InIdClass(CharAt(s, k))

\* The first pattern at position k: the alternatives tried in order.
FirstPatternAt(s, k) ==
    LET hits == {a \in 1..Len(FirstPatternLiterals) :
                    /\ LiteralAt(s, k, FirstPatternLiterals[a])
                    /\ CanCaptureAt(s, k + Len(FirstPatternLiterals[a]))}
    IN  IF hits = {} THEN None
        ELSE LET a == CHOOSE x \in hits : \A y \in hits : x <= y
             IN  CaptureAt(s, k + Len(FirstPatternLiterals[a]))

\* The second pattern at position k: ".*" is greedy and does not cross a
\* newline, so the match takes the last "v=" of the line that a class
\* character follows.
SecondPatternAt(s, k) ==
    IF ~LiteralAt(s, k, WatchQueryLiteral) THEN None
    ELSE LET from == k + Len(WatchQueryLiteral)
             cands == {p \in from..Len(s) :
                          /\ LiteralAt(s, p, VEquals)
                          /\ CanCaptureAt(s, p + Len(VEquals))
                          /\ \A q \in from..(p - 1) : CharAt(s, q) # "\n"}
         IN  IF cands = {} THEN None
             ELSE LET p == CHOOSE x \in cands : \A y \in cands : y <= x
                  IN  CaptureAt(s, p + Len(VEquals))

\* re.search: the match at the leftmost position where the pattern matches.
RECURSIVE SearchFirstFrom(_, _)
SearchFirstFrom(s, k) ==
    IF k > Len(s) THEN None
    ELSE LET m == FirstPatternAt(s, k)
         IN  IF m # None THEN m ELSE SearchFirstFrom(s, k + 1)

SearchFirst(s) == SearchFirstFrom(s, 1)

RECURSIVE SearchSecondFrom(_, _)
SearchSecondFrom(s, k) ==
    IF k > Len(s) THEN None
    ELSE LET m == SecondPatternAt(s, k)
         IN  IF m # None THEN m ELSE SearchSecondFrom(s, k + 1)

SearchSecond(s) == SearchSecondFrom(s, 1)

\* The patterns in list order; the first that matches gives the result.
extract_video_id(video_url) ==
    LET first == SearchFirst(video_url)
        second == SearchSecond(video_url)
    IN  IF first # None THEN first
        ELSE IF second # None THEN second
        ELSE None

-----------------------------------------------------------------------------
(* Inputs of the URL parser *)

MaxIdLen == 2

IdChars == {"a", "B", "1", "-", "_"}

RECURSIVE StringsUpTo(_, _)
StringsUpTo(alphabet, n) ==
    IF n = 0 THEN {""}
    ELSE LET shorter == StringsUpTo(alphabet, n - 1)
         IN  shorter \cup {s \o c : s \in shorter, c \in alphabet}

Identifiers == StringsUpTo(IdChars, MaxIdLen) \ {""}

UrlPrefixes == {"", "https://", "https://www.", "http://m."}

UrlSuffixes == {"", "&t=1", "?t=1", "#x", "\nz", "&v=x"}

SupportedInputs ==
    {[url |-> p \o lit \o id \o sfx, shape |-> lit, id |-> id] :
        p \in UrlPrefixes,
        lit \in {WatchLiteral, ShortLiteral, EmbedLiteral},
        id \in Identifiers,
        sfx \in UrlSuffixes}

\* watch URLs whose v parameter is not the first one: only the second
\* pattern matches them.
QueryInputs ==
    {[url |-> p \o WatchQueryLiteral \o "t=1&" \o VEquals \o id \o sfx,
      shape |-> "query", id |-> id] :
        p \in UrlPrefixes, id \in Identifiers, sfx \in UrlSuffixes \ {"&v=x"}}

UnrecognizedUrls ==
    {"", "a", "vimeo.com/a", "https://youtube.com/", "youtube.com/watch?v=",
     "youtu.be/", "youtu.be/?a", "youtube.com/embed/#a", "youtube.com/watch?v=&a",
     "youtubeXcom/embed/a", "youtuXbe/a", "youtube.com/playlist?list=a",
     "youtube.com/watch?a=1", "youtube.com/watch?\nv=a", "youtube.com/v/a",
     "youtube.com/shorts/a", "watch?v=a", "embed/a", "v=a"}

UnrecognizedInputs ==
    {[url |-> u, shape |-> "none", id |-> None] : u \in UnrecognizedUrls}

ParserInputs == SupportedInputs \cup QueryInputs \cup UnrecognizedInputs

-----------------------------------------------------------------------------
(* analyze_transcript, lines 70-92 *)

\* stop_words, line 81.
stop_words ==
    {"the", "a", "an", "and", "or", "but", "in", "on", "at", "to", "for", "of",
     "with", "by", "is", "are", "was", "were", "be", "been", "have", "has", "had",
     "do", "does", "did", "will", "would", "could", "should", "may", "might",
     "must", "can", "this", "that", "these", "those", "i", "you", "he", "she",
     "it", "we", "they", "me", "him", "her", "us", "them"}

\* len(word) > 3, line 83.
MinWordLen == 3

\* most_common(10), line 84.
TopN == 10

\* The divisor of the duration estimate, line 77.
CharsPerMinute == 200

\* A variant of KeepWord: the stop-word test on the token as written.
KeepWordRaw(word) == word \notin stop_words /\ Len(word) > MinWordLen

\* The condition of the comprehension of line 83, on one token.
KeepWord(word) == lower(word) \notin stop_words /\ Len(word) > MinWordLen

\* [word.lower() for word in words if ...], line 83.
RECURSIVE FilteredWords(_)
FilteredWords(words) ==
    IF words = <<>> THEN <<>>
    ELSE (IF KeepWord(Head(words)) THEN <<lower(Head(words))>> ELSE <<>>)
         \o FilteredWords(Tail(words))

\* The keys of Counter(ws), in the order of their first occurrence.
RECURSIVE CounterKeys(_, _)
CounterKeys(ws, seen) ==
    IF ws = <<>> THEN <<>>
    ELSE IF Head(ws) \in seen THEN CounterKeys(Tail(ws), seen)
    ELSE <<Head(ws)>> \o CounterKeys(Tail(ws), seen \cup {Head(ws)})

\* Counter(ws)[w]
CounterCount(ws, w) == Cardinality({k \in DOMAIN ws : ws[k] = w})

\* Python values that carry their type where the exporter tells them apart.
PyStr(s) == [py |-> "str", v |-> s]
PyInt(n) == [py |-> "int", v |-> n]
PyList(items) == [py |-> "list", items |-> items]
PyTuple(items) == [py |-> "tuple", items |-> items]
PyDict(keys, vals) == [py |-> "dict", keys |-> keys, vals |-> vals]

\* Counter(ws).most_common(n): the n entries of largest count, larger count
\* first, entries of equal count in the order of first occurrence
\* (heapq.nlargest is stable), each a (word, count) tuple.
most_common(ws, n) ==
    LET keys == CounterKeys(ws, {})
        cnt(k) == CounterCount(ws, keys[k])
        \* the number of entries sorted before entry k
        rank(k) == Cardinality({j \in DOMAIN keys :
                       \/ cnt(j) > cnt(k)
                       \/ cnt(j) = cnt(k) /\ j < k})
        size == IF Len(keys) < n THEN Len(keys) ELSE n
        at(r) == CHOOSE k \in DOMAIN keys : rank(k) = r - 1
    IN  [r \in 1..size |-> PyTuple(<<keys[at(r)], cnt(at(r))>>)]

\* round(x, 2) of the float num/den.  The rounding acts on the binary float;
\* the result is kept as the quotient it rounds, which no step of the script
\* inspects.
Round2(num, den) == [py |-> "float", round2 |-> <<num, den>>]

analyze_transcript(text) ==
    LET words == split(text)
        word_count == Len(words)
        \* estimated_duration = len(text) / 200
        \* speaking_speed = (word_count / estimated_duration) * 60 if > 0 else 0
        speaking_speed == IF Len(text) > 0
                          THEN Round2(word_count * CharsPerMinute * 60, Len(text))
                          ELSE PyInt(0)
        word_freq == FilteredWords(words)
        top_words == most_common(word_freq, TopN)
    IN  [word_count |-> word_count,
         character_count |-> Len(text),
         speaking_speed |-> speaking_speed,
         top_words |-> top_words,
         estimated_duration |-> Round2(Len(text), CharsPerMinute)]

-----------------------------------------------------------------------------
(* Inputs of the text analyzer *)

MaxTailTokens == 2

\* Twelve distinct countable words: more than most_common keeps.
LongWords == <<"alpha", "bravo", "charlie", "delta", "echo1", "foxtrot",
               "golf", "hotel", "india", "juliet", "kilo", "lima">>

PrefixLengths == {0, 9, Len(LongWords)}

\* Tokens that meet each part of the filter: stop words in both cases, a
\* short word, words that differ in case only, a word that is also in the
\* prefix, and U+0130 ("$"), whose lower-case form is longer than itself.
TailVocabulary == {"the", "THAT", "dog", "Dogs", "DOGS", "lima", "$ab", "i^ab"}

TokenSeparators == {" ", " \n"}

RECURSIVE TokenSeqs(_)
TokenSeqs(n) ==
    IF n = 0 THEN {<<>>}
    ELSE LET shorter == TokenSeqs(n - 1)
         IN  shorter \cup {Append(s, t) : s \in shorter, t \in TailVocabulary}

AnalyzerInputs ==
    {join(sep, SubSeq(LongWords, 1, k) \o tail) :
        k \in PrefixLengths, tail \in TokenSeqs(MaxTailTokens), sep \in TokenSeparators}

-----------------------------------------------------------------------------
(* get_video_metadata, lines 44-68 *)

TitleOpen == "<title>"
TitleClose == "</title>"
YouTubeSuffix == " - YouTube"
UnknownTitle == "Unknown Title"
WatchUrlHead == "https://www.youtube.com/watch?v="

\* [^<]+ from position k: the longest run of characters other than "<".
RECURSIVE TitleRunEnd(_, _)
TitleRunEnd(s, k) ==
    IF k <= Len(s) /\ CharAt(s, k) # "<" THEN TitleRunEnd(s, k + 1) ELSE k - 1

\* <title>([^<]+)</title> at position k: the run is greedy and ends at the
\* first "<", where the closing tag has to begin.
TitleAt(s, k) ==
    LET from == k + Len(TitleOpen)
        to == TitleRunEnd(s, from)
    IN  IF /\ LiteralAt(s, k, TitleOpen)
           /\ to >= from
           /\ LiteralAt(s, to + 1, TitleClose)
        THEN SubSeq(s, from, to)
        ELSE None

\* re.search(r'<title>([^<]+)</title>', text), line 55.
TitleSearch(s) ==
    LET pos == {k \in 1..Len(s) : TitleAt(s, k) # None}
    IN  IF pos = {} THEN None
        ELSE TitleAt(s, CHOOSE x \in pos : \A y \in pos : x <= y)

\* str.replace(old, new): every occurrence, left to right, not overlapping.
RECURSIVE replace(_, _, _)
replace(s, old, new) ==
    IF s = "" THEN ""
    ELSE IF LiteralAt(s, 1, old)
         THEN new \o replace(From(s, Len(old) + 1), old, new)
         ELSE CharAt(s, 1) \o replace(From(s, 2), old, new)

\* The outcome of requests.get: "raise", or the text of the response.
Raise == "<raise>"

get_video_metadata(vid, response) ==
    IF response = Raise
    THEN [title |-> UnknownTitle, video_id |-> vid, url |-> WatchUrlHead \o vid]
    ELSE [title |-> IF TitleSearch(response) # None
                    THEN replace(TitleSearch(response), YouTubeSuffix, "")
                    ELSE UnknownTitle,
          video_id |-> vid,
          url |-> WatchUrlHead \o vid]

-----------------------------------------------------------------------------
(* The hosted model: extract_keywords, analyze_sentiment,
   generate_gemini_content, lines 94-118 *)

KeywordsFallback == "Unable to extract keywords"
SentimentFallback == "Unable to analyze sentiment"

\* A variant of extract_keywords without the handler of lines 101-102.
extract_keywords_unhandled(reply) == strip(reply)

\* reply is what model.generate_content produced: Raise, or response.text.
extract_keywords(reply) == IF reply = Raise THEN KeywordsFallback ELSE strip(reply)

analyze_sentiment(reply) == IF reply = Raise THEN SentimentFallback ELSE strip(reply)

\* generate_gemini_content returns response.text as it is.
generate_gemini_content(reply) == reply

\* A variant of SummaryRaises: the exception is swallowed.
SummaryNeverRaises(reply) == FALSE

\* generate_gemini_content has no handler: an exception of generate_content
\* reaches the caller.
SummaryRaises(reply) == reply = Raise

-----------------------------------------------------------------------------
(* extract_transcript, lines 120-133 *)

InvalidUrlError == "Invalid YouTube URL format"
TranscriptError == "Error extracting transcript"

\* A variant of extract_transcript: the service is called before the
\* identifier is tested.
extract_transcript_fetch_first(video_url, fetched) ==
    LET vid == extract_video_id(video_url)
    IN  IF fetched.raised
        THEN [transcript_text |-> None, video_id |-> None,
              error |-> "Error extracting transcript", fetch |-> TRUE,
              outcome |-> IF vid = None THEN "no_id" ELSE "raised"]
        ELSE IF vid = None
        THEN [transcript_text |-> None, video_id |-> None,
              error |-> "Invalid YouTube URL format", fetch |-> TRUE,
              outcome |-> "no_id"]
        ELSE [transcript_text |-> join(" ", fetched.snippets), video_id |-> vid,
              error |-> None, fetch |-> TRUE, outcome |-> "returned"]

\* fetched is what YouTubeTranscriptApi().fetch produced: an exception, or
\* the sequence of snippet texts.  The result holds the returned pair, the
\* st.error message if any, and whether the service was called.
extract_transcript(video_url, fetched) ==
    LET vid == extract_video_id(video_url)
    IN  IF ~Truthy(vid)
        THEN [transcript_text |-> None, video_id |-> None,
              error |-> InvalidUrlError, fetch |-> FALSE, outcome |-> "no_id"]
        ELSE IF fetched.raised
        THEN [transcript_text |-> None, video_id |-> None,
              error |-> TranscriptError, fetch |-> TRUE, outcome |-> "raised"]
        ELSE [transcript_text |-> join(" ", fetched.snippets), video_id |-> vid,
              error |-> None, fetch |-> TRUE, outcome |-> "returned"]

-----------------------------------------------------------------------------
(* Exporter, lines 135-142, and the typed values it is given *)

\* json.dumps, as the JSON document it writes: a tuple and a list both become
\* an array, a dict an object, a str a string, an int or float a number whose
\* literal keeps the value.  The layout (indent=2) and the UTF-8 encoding of
\* the document are not modelled.
RECURSIVE json_dumps(_)
json_dumps(v) ==
    CASE v.py = "str" -> [js |-> "string", v |-> v.v]
      [] v.py = "int" -> [js |-> "number", v |-> v]
      [] v.py = "float" -> [js |-> "number", v |-> v]
      [] v.py \in {"list", "tuple"} ->
            [js |-> "array",
             items |-> [k \in DOMAIN v.items |-> json_dumps(v.items[k])]]
      [] v.py = "dict" ->
            [js |-> "object", keys |-> v.keys,
             vals |-> [k \in DOMAIN v.vals |-> json_dumps(v.vals[k])]]

\* json.loads of such a document: an array becomes a list, an object a dict.
RECURSIVE json_loads(_)
json_loads(d) ==
    CASE d.js = "string" -> PyStr(d.v)
      [] d.js = "number" -> d.v
      [] d.js = "array" ->
            PyList([k \in DOMAIN d.items |-> json_loads(d.items[k])])
      [] d.js = "object" ->
            PyDict(d.keys, [k \in DOMAIN d.vals |-> json_loads(d.vals[k])])

\* A variant of export_to_json: json.dumps(str(data)).
export_to_json_str(data) == [buffer |-> json_dumps(PyStr("data"))]

\* export_to_json(data, filename): the buffer holding the document.
export_to_json(data) == [buffer |-> json_dumps(data)]

\* export_to_text(content, filename): the buffer holding the text.
export_to_text(content) == [buffer |-> content]

\* The dict get_video_metadata returns, as a typed value.
MetadataValue(m) ==
    PyDict(<<"title", "video_id", "url">>,
           <<PyStr(m.title), PyStr(m.video_id), PyStr(m.url)>>)

\* The dict analyze_transcript returns, as a typed value: top_words is the
\* list of (word, count) tuples most_common built.
AnalysisValue(a) ==
    PyDict(<<"word_count", "character_count", "speaking_speed", "top_words",
             "estimated_duration">>,
           <<PyInt(a.word_count), PyInt(a.character_count), a.speaking_speed,
             PyList([k \in DOMAIN a.top_words |->
                        [py |-> a.top_words[k].py,
                         items |-> <<PyStr(a.top_words[k].items[1]),
                                     PyInt(a.top_words[k].items[2])>>]]),
             a.estimated_duration>>)

\* datetime.now().isoformat(), line 256.
Timestamp == "2024-01-01T00:00:00"

\* full_data, lines 250-257.
FullData(m, s, text, kw_reply, se_reply) ==
    PyDict(<<"metadata", "summary", "analysis", "keywords", "sentiment", "timestamp">>,
           <<MetadataValue(m), PyStr(s), AnalysisValue(analyze_transcript(text)),
             PyStr(extract_keywords(kw_reply)), PyStr(analyze_sentiment(se_reply)),
             PyStr(Timestamp)>>)

\* One record of batch_results, lines 303-309.
BatchRecord(url, vid, m, s, text) ==
    [url |-> url, video_id |-> vid, title |-> m.title, summary |-> s,
     word_count |-> Len(split(text))]

BatchRecordValue(r) ==
    PyDict(<<"url", "video_id", "title", "summary", "word_count">>,
           <<PyStr(r.url), PyStr(r.video_id), PyStr(r.title), PyStr(r.summary),
             PyInt(r.word_count)>>)

BatchResultsValue(rs) == PyList([k \in DOMAIN rs |-> BatchRecordValue(rs[k])])

-----------------------------------------------------------------------------
(* What the user can enter and what the external services can answer *)

MaxBatchLines == 2

UrlInputs == {"https://youtu.be/a1", "not a url"}

BatchLines == {" https://youtu.be/a1 ", "youtube.com/watch?v=B2&t=1", "bad", "  "}

\* The number of lines of the text area.
BatchLineCount(text) == IF text = "" THEN 0 ELSE Len(splitOn(text, "\n", ""))

\* YouTubeTranscriptApi().fetch: an exception, or the snippet texts (a
\* transcript may hold no snippet).
FetchOutcomes ==
    {[raised |-> TRUE, snippets |-> <<>>],
     [raised |-> FALSE, snippets |-> <<>>],
     [raised |-> FALSE, snippets |-> <<"good dogs", "DOGS">>]}

\* requests.get: an exception, a page with a title, a page without one.
ResponseOutcomes == {Raise, "<html><title>Cats - YouTube</title>", "<html>"}

\* model.generate_content(...).text, or an exception.
ReplyOutcomes == {Raise, " text "}

-----------------------------------------------------------------------------
(* The script, lines 146-331: one run per user event *)

\* A name the current run has not bound to a dict.
NoValue == [none |-> TRUE]

\* The texts of the status placeholder, lines 293, 296 and 313.
NoStatus == [text |-> None]
Processing(k, n) == [text |-> "Processing video", k |-> k, n |-> n]
Complete == [text |-> "Batch processing complete!"]

ExportButtons == {"export_summary", "export_full", "export_transcript"}

\* An entry of the log of external calls: item is 0 for the single video
\* and the 1-based position for a batch URL.
Called(op, item, raised) == [op |-> op, item |-> item, raised |-> raised]

FlowInit ==
    /\ youtube_url = ""
    /\ batch_urls = ""
    /\ show_analysis = TRUE
    /\ show_keywords = TRUE
    /\ show_sentiment = TRUE
    /\ pressed = "none"
    /\ pc = "idle"
    /\ transcript_text = None
    /\ video_id = None
    /\ metadata = NoValue
    /\ summary = None
    /\ analysis = NoValue
    /\ keywords = None
    /\ sentiment = None
    /\ urls = <<>>
    /\ i = 0
    /\ batch_results = <<>>
    /\ progress = <<>>
    /\ status_text = NoStatus
    /\ errors = <<>>
    /\ calls = <<>>
    /\ page = {"analyze", "batch"}
    /\ downloads = {}
    /\ table = <<>>
    /\ exception = FALSE
    /\ extracted = <<>>

Init == FlowInit /\ call = NoValue

\* Lines 146-172 of a fresh run: the script starts with no name bound and an
\* empty page, and renders the sidebar, the URL input and the Analyze button.
StartRun(button) ==
    /\ pressed' = button
    /\ pc' = "single"
    /\ transcript_text' = None
    /\ video_id' = None
    /\ metadata' = NoValue
    /\ summary' = None
    /\ analysis' = NoValue
    /\ keywords' = None
    /\ sentiment' = None
    /\ urls' = <<>>
    /\ i' = 0
    /\ batch_results' = <<>>
    /\ progress' = <<>>
    /\ status_text' = NoStatus
    /\ errors' = <<>>
    /\ calls' = <<>>
    /\ page' = {"analyze"}
    /\ downloads' = {}
    /\ table' = <<>>
    /\ exception' = FALSE
    /\ extracted' = <<>>
    /\ UNCHANGED call

\* The user edits the URL field.
EnterUrl ==
    /\ pc = "idle"
    /\ \E u \in UrlInputs \cup {""} : u # youtube_url /\ youtube_url' = u
    /\ UNCHANGED <<batch_urls, show_analysis, show_keywords, show_sentiment>>
    /\ StartRun("none")

\* The user edits the batch text area: clears it, or adds a line to it.
EnterBatch ==
    /\ pc = "idle"
    /\ \/ batch_urls # "" /\ batch_urls' = ""
       \/ \E l \in BatchLines :
             /\ BatchLineCount(batch_urls) < MaxBatchLines
             /\ batch_urls' = IF batch_urls = "" THEN l ELSE batch_urls \o "\n" \o l
    /\ UNCHANGED <<youtube_url, show_analysis, show_keywords, show_sentiment>>
    /\ StartRun("none")

\* The user toggles one of the three checkboxes the script reads.
ToggleOption ==
    /\ pc = "idle"
    /\ \E opt \in {"analysis", "keywords", "sentiment"} :
          /\ show_analysis' = IF opt = "analysis" THEN ~show_analysis ELSE show_analysis
          /\ show_keywords' = IF opt = "keywords" THEN ~show_keywords ELSE show_keywords
          /\ show_sentiment' = IF opt = "sentiment" THEN ~show_sentiment ELSE show_sentiment
    /\ UNCHANGED <<youtube_url, batch_urls>>
    /\ StartRun("none")

\* The user presses a button the page shows.
PressButton ==
    /\ pc = "idle"
    /\ \E b \in page : StartRun(b)
    /\ UNCHANGED <<youtube_url, batch_urls, show_analysis, show_keywords, show_sentiment>>

widgets == <<youtube_url, batch_urls, show_analysis, show_keywords, show_sentiment,
             pressed, call>>

batchvars == <<urls, i, batch_results, progress, status_text, table>>

\* Lines 175-179: the guard of the single-video block, extract_transcript,
\* and the test of its result.
SingleExtract ==
    /\ pc = "single"
    /\ IF pressed = "analyze" /\ youtube_url # ""
       THEN \E fetched \in FetchOutcomes :
               LET r == extract_transcript(youtube_url, fetched)
               IN  /\ transcript_text' = r.transcript_text
                   /\ video_id' = r.video_id
                   /\ errors' = IF r.error # None THEN Append(errors, r.error) ELSE errors
                   /\ calls' = IF r.fetch
                               THEN Append(calls, Called("fetch", 0, fetched.raised))
                               ELSE calls
                   /\ extracted' = Append(extracted,
                                       [item |-> 0, url |-> youtube_url,
                                        outcome |-> r.outcome,
                                        transcript_text |-> r.transcript_text])
                   /\ pc' = IF Truthy(r.transcript_text) /\ Truthy(r.video_id)
                            THEN "single_metadata" ELSE "batch"
       ELSE /\ pc' = "batch"
            /\ UNCHANGED <<transcript_text, video_id, errors, calls, extracted>>
    /\ UNCHANGED <<widgets, batchvars, metadata, summary, analysis, keywords,
                   sentiment, page, downloads, exception>>

\* Lines 180-193: get_video_metadata and the header.
SingleMetadata ==
    /\ pc = "single_metadata"
    /\ \E response \in ResponseOutcomes :
          /\ metadata' = get_video_metadata(video_id, response)
          /\ calls' = Append(calls, Called("metadata", 0, response = Raise))
    /\ pc' = "single_summary"
    /\ UNCHANGED <<widgets, batchvars, transcript_text, video_id, summary, analysis,
                   keywords, sentiment, errors, page, downloads, exception, extracted>>

\* Lines 195-198: the summary; an exception of the model call ends the run.
SingleSummary ==
    /\ pc = "single_summary"
    /\ \E reply \in ReplyOutcomes :
          /\ calls' = Append(calls, Called("summary", 0, reply = Raise))
          /\ IF SummaryRaises(reply)
             THEN /\ exception' = TRUE
                  /\ pc' = "idle"
                  /\ UNCHANGED summary
             ELSE /\ summary' = generate_gemini_content(reply)
                  /\ pc' = "single_analysis"
                  /\ UNCHANGED exception
    /\ UNCHANGED <<widgets, batchvars, transcript_text, video_id, metadata, analysis,
                   keywords, sentiment, errors, page, downloads, extracted>>

\* Lines 200-218: the transcript analysis, if requested.
SingleAnalysis ==
    /\ pc = "single_analysis"
    /\ analysis' = IF show_analysis THEN analyze_transcript(transcript_text) ELSE analysis
    /\ pc' = "single_keywords"
    /\ UNCHANGED <<widgets, batchvars, transcript_text, video_id, metadata, summary,
                   keywords, sentiment, errors, calls, page, downloads, exception,
                   extracted>>

\* Lines 220-224: the keywords, if requested.
SingleKeywords ==
    /\ pc = "single_keywords"
    /\ IF show_keywords
       THEN \E reply \in ReplyOutcomes :
               /\ keywords' = extract_keywords(reply)
               /\ calls' = Append(calls, Called("keywords", 0, reply = Raise))
       ELSE UNCHANGED <<keywords, calls>>
    /\ pc' = "single_sentiment"
    /\ UNCHANGED <<widgets, batchvars, transcript_text, video_id, metadata, summary,
                   analysis, sentiment, errors, page, downloads, exception, extracted>>

\* Lines 226-230: the sentiment, if requested.
SingleSentiment ==
    /\ pc = "single_sentiment"
    /\ IF show_sentiment
       THEN \E reply \in ReplyOutcomes :
               /\ sentiment' = analyze_sentiment(reply)
               /\ calls' = Append(calls, Called("sentiment", 0, reply = Raise))
       ELSE UNCHANGED <<sentiment, calls>>
    /\ pc' = "single_export"
    /\ UNCHANGED <<widgets, batchvars, transcript_text, video_id, metadata, summary,
                   analysis, keywords, errors, page, downloads, exception, extracted>>

\* A st.download_button: its label, payload and file name.
Download(label, data, stem, vid, ext) ==
    [label |-> label, data |-> data.buffer, file_name |-> stem \o vid \o ext]

\* Lines 232-274: the three export buttons are rendered; the body of each
\* runs in the run its own press triggered.
SingleExport ==
    /\ pc = "single_export"
    /\ page' = page \cup ExportButtons
    /\ \E kw_reply \in ReplyOutcomes, se_reply \in ReplyOutcomes :
          /\ downloads' =
                (IF pressed = "export_summary"
                 THEN {Download("Download Summary", export_to_text(summary),
                                "summary_", video_id, ".txt")}
                 ELSE {})
                \cup
                (IF pressed = "export_full"
                 THEN {Download("Download Full Analysis",
                                export_to_json(FullData(metadata, summary,
                                    transcript_text, kw_reply, se_reply)),
                                "analysis_", video_id, ".json")}
                 ELSE {})
                \cup
                (IF pressed = "export_transcript"
                 THEN {Download("Download Transcript", export_to_text(transcript_text),
                                "transcript_", video_id, ".txt")}
                 ELSE {})
          /\ calls' = IF pressed = "export_full"
                      THEN calls \o <<Called("keywords", 0, kw_reply = Raise),
                                      Called("sentiment", 0, se_reply = Raise)>>
                      ELSE calls
    /\ pc' = "batch"
    /\ UNCHANGED <<widgets, batchvars, transcript_text, video_id, metadata, summary,
                   analysis, keywords, sentiment, errors, exception, extracted>>

\* urls = [url.strip() for url in batch_urls.split('\n') if url.strip()], line 287.
RECURSIVE StripNonBlank(_)
StripNonBlank(lines) ==
    IF lines = <<>> THEN <<>>
    ELSE (IF strip(Head(lines)) # "" THEN <<strip(Head(lines))>> ELSE <<>>)
         \o StripNonBlank(Tail(lines))

BatchUrls(text) == StripNonBlank(splitOn(text, "\n", ""))

singlevars == <<transcript_text, video_id, metadata, summary, analysis, keywords,
                sentiment>>

\* Lines 276-293: the batch section is rendered; with the batch button
\* pressed and a non-blank line present, the loop is set up.
BatchStart ==
    /\ pc = "batch"
    /\ page' = page \cup {"batch"}
    /\ IF pressed = "batch" /\ batch_urls # ""
       THEN /\ urls' = BatchUrls(batch_urls)
            /\ pc' = IF BatchUrls(batch_urls) # <<>> THEN "batch_extract" ELSE "idle"
       ELSE /\ pc' = "idle"
            /\ UNCHANGED urls
    /\ UNCHANGED <<widgets, singlevars, i, batch_results, progress, status_text, table,
                   errors, calls, downloads, exception, extracted>>

\* Lines 295-299: the status text, extract_transcript for urls[i], and the
\* test of its result.
BatchExtract ==
    /\ pc = "batch_extract"
    /\ status_text' = Processing(i + 1, Len(urls))
    /\ \E fetched \in FetchOutcomes :
          LET r == extract_transcript(urls[i + 1], fetched)
          IN  /\ transcript_text' = r.transcript_text
              /\ video_id' = r.video_id
              /\ errors' = IF r.error # None THEN Append(errors, r.error) ELSE errors
              /\ calls' = IF r.fetch
                          THEN Append(calls, Called("fetch", i + 1, fetched.raised))
                          ELSE calls
              /\ extracted' = Append(extracted,
                                  [item |-> i + 1, url |-> urls[i + 1],
                                   outcome |-> r.outcome,
                                   transcript_text |-> r.transcript_text])
              /\ pc' = IF Truthy(r.transcript_text) /\ Truthy(r.video_id)
                       THEN "batch_metadata" ELSE "batch_progress"
    /\ UNCHANGED <<widgets, metadata, summary, analysis, keywords, sentiment, urls, i,
                   batch_results, progress, table, page, downloads, exception>>

\* Line 300.
BatchMetadata ==
    /\ pc = "batch_metadata"
    /\ \E response \in ResponseOutcomes :
          /\ metadata' = get_video_metadata(video_id, response)
          /\ calls' = Append(calls, Called("metadata", i + 1, response = Raise))
    /\ pc' = "batch_summary"
    /\ UNCHANGED <<widgets, batchvars, transcript_text, video_id, summary, analysis,
                   keywords, sentiment, errors, page, downloads, exception, extracted>>

\* A variant of AppendRecord: the record is put in front (insert(0, ...)).
PrependRecord(results, record) == <<record>> \o results

\* The list batch_results.append leaves, line 303.
AppendRecord(results, record) == Append(results, record)

\* A variant of BatchSummary: a failed summary call skips the URL and the
\* loop goes on.
BatchSummarySkips ==
    /\ pc = "batch_summary"
    /\ \E reply \in ReplyOutcomes :
          /\ calls' = Append(calls, Called("summary", i + 1, reply = Raise))
          /\ IF SummaryRaises(reply)
             THEN /\ pc' = "batch_progress"
                  /\ UNCHANGED <<summary, batch_results, exception>>
             ELSE /\ summary' = generate_gemini_content(reply)
                  /\ batch_results' =
                        AppendRecord(batch_results,
                            BatchRecord(urls[i + 1], video_id, metadata,
                                        generate_gemini_content(reply), transcript_text))
                  /\ pc' = "batch_progress"
                  /\ UNCHANGED exception
    /\ UNCHANGED <<widgets, transcript_text, video_id, metadata, analysis, keywords,
                   sentiment, urls, i, progress, status_text, table, errors, page,
                   downloads, extracted>>

\* Lines 301-309: the summary and the record; an exception of the model call
\* leaves the loop and ends the run.
BatchSummary ==
    /\ pc = "batch_summary"
    /\ \E reply \in ReplyOutcomes :
          /\ calls' = Append(calls, Called("summary", i + 1, reply = Raise))
          /\ IF SummaryRaises(reply)
             THEN /\ exception' = TRUE
                  /\ pc' = "idle"
                  /\ UNCHANGED <<summary, batch_results>>
             ELSE /\ summary' = generate_gemini_content(reply)
                  /\ batch_results' =
                        AppendRecord(batch_results,
                            BatchRecord(urls[i + 1], video_id, metadata,
                                        generate_gemini_content(reply), transcript_text))
                  /\ pc' = "batch_progress"
                  /\ UNCHANGED exception
    /\ UNCHANGED <<widgets, transcript_text, video_id, metadata, analysis, keywords,
                   sentiment, urls, i, progress, status_text, table, errors, page,
                   downloads, extracted>>

\* A variant of ProgressValue: i / len(urls).
ProgressValueIndex(idx, n) == <<idx, n>>

\* The value of line 311 for index idx of n URLs, as the pair <<k, n>> of the
\* quotient k / n.
ProgressValue(idx, n) == <<idx + 1, n>>

\* Line 311, and the step of the loop to its next index or its end.
BatchProgress ==
    /\ pc = "batch_progress"
    /\ progress' = Append(progress, ProgressValue(i, Len(urls)))
    /\ i' = i + 1
    /\ pc' = IF i + 1 < Len(urls) THEN "batch_extract" ELSE "batch_done"
    /\ UNCHANGED <<widgets, singlevars, urls, batch_results, status_text, table, errors,
                   calls, page, downloads, exception, extracted>>

\* Lines 313-331: the completion text, the table, and the export button,
\* whose body runs in the run its own press triggered.
BatchDone ==
    /\ pc = "batch_done"
    /\ status_text' = Complete
    /\ IF batch_results # <<>>
       THEN /\ table' = [k \in DOMAIN batch_results |->
                            [title |-> batch_results[k].title,
                             word_count |-> batch_results[k].word_count]]
            /\ page' = page \cup {"export_batch"}
            /\ downloads' =
                  IF pressed = "export_batch"
                  THEN {[label |-> "Download Batch Results",
                         data |-> export_to_json(BatchResultsValue(batch_results)).buffer,
                         file_name |-> "batch_results.json"]}
                  ELSE downloads
       ELSE UNCHANGED <<table, page, downloads>>
    /\ pc' = "idle"
    /\ UNCHANGED <<widgets, singlevars, urls, i, batch_results, progress, errors, calls,
                   exception, extracted>>

Next ==
    \/ EnterUrl
    \/ EnterBatch
    \/ ToggleOption
    \/ PressButton
    \/ SingleExtract
    \/ SingleMetadata
    \/ SingleSummary
    \/ SingleAnalysis
    \/ SingleKeywords
    \/ SingleSentiment
    \/ SingleExport
    \/ BatchStart
    \/ BatchExtract
    \/ BatchMetadata
    \/ BatchSummary
    \/ BatchProgress
    \/ BatchDone

Spec == Init /\ [][Next]_vars

-----------------------------------------------------------------------------
(* The pure functions, each applied to inputs drawn from a bounded set *)

ParserInit ==
    /\ FlowInit
    /\ call \in {[fn |-> "extract_video_id", arg |-> in, returned |-> FALSE,
                  ret |-> None] : in \in ParserInputs}

ParserCall ==
    /\ call.fn = "extract_video_id"
    /\ ~call.returned
    /\ call' = [call EXCEPT !.returned = TRUE, !.ret = extract_video_id(call.arg.url)]
    /\ UNCHANGED flowvars

ParserSpec == ParserInit /\ [][ParserCall]_vars

AnalyzerInit ==
    /\ FlowInit
    /\ call \in {[fn |-> "analyze_transcript", arg |-> text, returned |-> FALSE,
                  ret |-> NoValue] : text \in AnalyzerInputs}

AnalyzerCall ==
    /\ call.fn = "analyze_transcript"
    /\ ~call.returned
    /\ call' = [call EXCEPT !.returned = TRUE, !.ret = analyze_transcript(call.arg)]
    /\ UNCHANGED flowvars

AnalyzerSpec == AnalyzerInit /\ [][AnalyzerCall]_vars

MaxRecords == 2

RecordInputs ==
    {BatchRecord(url, extract_video_id(url), get_video_metadata(extract_video_id(url), r),
                 " text ", join(" ", f.snippets)) :
        url \in {"https://youtu.be/a1", "youtube.com/watch?v=B2&t=1"},
        r \in {Raise, "<html><title>Cats - YouTube</title>"},
        f \in {x \in FetchOutcomes : ~x.raised}}

RECURSIVE RecordSeqs(_)
RecordSeqs(n) ==
    IF n = 0 THEN {<<>>}
    ELSE LET shorter == RecordSeqs(n - 1)
         IN  shorter \cup {Append(s, r) : s \in shorter, r \in RecordInputs}

FullDataInputs ==
    {FullData(get_video_metadata("a1", r), " text ", text, kw, se) :
        r \in ResponseOutcomes,
        text \in {"good dogs DOGS", "a the dog", ""},
        kw \in ReplyOutcomes,
        se \in ReplyOutcomes}

ExportInputs ==
    {[kind |-> "full_data", data |-> d] : d \in FullDataInputs}
    \cup {[kind |-> "batch_results", data |-> BatchResultsValue(rs)] :
             rs \in RecordSeqs(MaxRecords)}

ExportInit ==
    /\ FlowInit
    /\ call \in {[fn |-> "export_to_json", arg |-> in, stage |-> "called",
                  file |-> NoValue, loaded |-> NoValue] : in \in ExportInputs}

\* export_to_json(data, filename), lines 258 and 325.
ExportCall ==
    /\ call.fn = "export_to_json"
    /\ call.stage = "called"
    /\ call' = [call EXCEPT !.stage = "exported", !.file = export_to_json(call.arg.data)]
    /\ UNCHANGED flowvars

\* The downloaded buffer is deserialized.
ExportLoad ==
    /\ call.fn = "export_to_json"
    /\ call.stage = "exported"
    /\ call' = [call EXCEPT !.stage = "loaded", !.loaded = json_loads(call.file.buffer)]
    /\ UNCHANGED flowvars

ExportNext == ExportCall \/ ExportLoad

ExportSpec == ExportInit /\ [][ExportNext]_vars

-----------------------------------------------------------------------------
(* Properties *)

RECURSIVE SelectUrls(_, _)
SelectUrls(es, outcomes) ==
    IF es = <<>> THEN <<>>
    ELSE (IF Head(es).outcome \in outcomes THEN <<Head(es).url>> ELSE <<>>)
         \o SelectUrls(Tail(es), outcomes)

\* The URLs of the returns of extract_transcript that carry a non-empty text.
RECURSIVE SelectNonEmpty(_)
SelectNonEmpty(es) ==
    IF es = <<>> THEN <<>>
    ELSE (IF Head(es).outcome = "returned" /\ Head(es).transcript_text # ""
          THEN <<Head(es).url>> ELSE <<>>)
         \o SelectNonEmpty(Tail(es))

ResultUrls == [k \in DOMAIN batch_results |-> batch_results[k].url]

ExtractedUrls == [k \in DOMAIN extracted |-> extracted[k].url]

\* The batch loop ran to its end (line 313).
BatchCompleted == status_text = Complete

LastCall == calls[Len(calls)]

\* C2: a failed metadata fetch, keyword call or sentiment call leaves the
\* fixed fallback value and raises nothing: the run goes on to the steps
\* after it, only a summary failure ends a run early, and a run that ends
\* without one has rendered the export buttons and the batch section.
C2_EnrichmentNeverAborts ==
    /\ (calls # <<>> /\ LastCall.op = "metadata" /\ LastCall.raised) =>
          /\ metadata = [title |-> "Unknown Title", video_id |-> video_id,
                         url |-> "https://www.youtube.com/watch?v=" \o video_id]
          /\ pc \in {"single_summary", "batch_summary"}
          /\ ~exception
    /\ (calls # <<>> /\ LastCall.op = "keywords" /\ LastCall.raised) =>
          /\ keywords = "Unable to extract keywords"
          /\ pc \in {"single_sentiment", "single_export", "batch", "idle"}
          /\ ~exception
    /\ (calls # <<>> /\ LastCall.op = "sentiment" /\ LastCall.raised) =>
          /\ sentiment = "Unable to analyze sentiment"
          /\ pc \in {"single_export", "batch", "idle"}
          /\ ~exception
    /\ exception => (LastCall.op = "summary" /\ LastCall.raised)
    /\ (pc = "idle" /\ ~exception) =>
          /\ "batch" \in page
          /\ (pressed = "analyze" /\ Truthy(transcript_text)) => ExportButtons \subseteq page
          /\ (pressed = "batch" /\ urls # <<>>) => BatchCompleted

\* A single-video run that ended with all three enrichment calls failed.
C2_Witness ==
    /\ pc = "idle"
    /\ pressed = "analyze"
    /\ ExportButtons \subseteq page
    /\ \E k \in DOMAIN calls : calls[k].op = "metadata" /\ calls[k].raised
    /\ keywords = "Unable to extract keywords"
    /\ sentiment = "Unable to analyze sentiment"

\* C3: in the single-video flow a failed summary call ends the run at once:
\* no summary exists, and no analysis, keyword call, sentiment call or export
\* button follows it.
C3_SummaryFailurePropagates ==
    (pressed = "analyze" /\ calls # <<>> /\ LastCall.op = "summary" /\ LastCall.raised) =>
        /\ exception
        /\ pc = "idle"
        /\ summary = None
        /\ analysis = NoValue
        /\ keywords = None
        /\ sentiment = None
        /\ page \cap ExportButtons = {}
        /\ downloads = {}

\* A single-video run whose summary call failed after its metadata was fetched.
C3_Witness ==
    /\ pressed = "analyze"
    /\ exception
    /\ metadata # NoValue
    /\ show_analysis /\ show_keywords /\ show_sentiment

\* C4: a URL of one of the supported shapes gives exactly its identifier,
\* whatever precedes the shape and whatever query or fragment follows the
\* identifier; a string that has none of the shapes gives None.
C4_ParserReturnsId ==
    call.returned =>
        /\ call.arg.shape \in {WatchLiteral, ShortLiteral, EmbedLiteral} =>
              call.ret = call.arg.id
        /\ call.arg.shape = "none" => call.ret = None

\* An embed URL with a query behind the identifier, parsed.
C4_Witness ==
    /\ call.returned
    /\ call.arg.url = "https://www.youtube.com/embed/a1?t=1"
    /\ call.ret = "a1"

EntryWord(e) == e.items[1]
EntryCount(e) == e.items[2]

\* The parts of C5 that do not speak of the count: at most 10 entries, each
\* longer than 3 characters, none a stop word, each the lower-case form of a
\* token of the transcript, no word twice.
TopWordsShape(lowered, top) ==
    /\ Len(top) <= 10
    /\ \A k \in DOMAIN top :
          /\ Len(EntryWord(top[k])) > 3
          /\ lower(EntryWord(top[k])) \notin stop_words
          /\ \E t \in DOMAIN lowered : lowered[t] = EntryWord(top[k])
    /\ \A j, k \in DOMAIN top : EntryWord(top[j]) = EntryWord(top[k]) => j = k

\* The lower-case forms of the tokens.
LoweredTokens(tokens) == [t \in DOMAIN tokens |-> lower(tokens[t])]

\* C5, as stated: besides the shape, the count of an entry is the number of
\* tokens whose lower-case form is the entry's word.
C5_TopWordsCountAllTokens ==
    call.returned =>
        LET tokens == split(call.arg)
            lowered == LoweredTokens(tokens)
        IN  /\ TopWordsShape(lowered, call.ret.top_words)
            /\ \A k \in DOMAIN call.ret.top_words :
                  EntryCount(call.ret.top_words[k]) =
                     Cardinality({t \in DOMAIN tokens :
                         lowered[t] = EntryWord(call.ret.top_words[k])})

\* C5, amended: besides the shape, the count of an entry is the number of
\* tokens longer than 3 characters whose lower-case form is the entry's word.
C5_TopWordsCountLongTokens ==
    call.returned =>
        LET tokens == split(call.arg)
            lowered == LoweredTokens(tokens)
        IN  /\ TopWordsShape(lowered, call.ret.top_words)
            /\ \A k \in DOMAIN call.ret.top_words :
                  EntryCount(call.ret.top_words[k]) =
                     Cardinality({t \in DOMAIN tokens :
                         /\ Len(tokens[t]) > 3
                         /\ lowered[t] = EntryWord(call.ret.top_words[k])})

\* A transcript of more than ten countable words, one of them in two cases,
\* analyzed.
C5_Witness ==
    /\ call.returned
    /\ Len(call.ret.top_words) = 10
    /\ call.ret.word_count = 14
    /\ EntryCount(call.ret.top_words[1]) = 2

\* A typed value with every tuple replaced by the list of its items.
RECURSIVE TuplesAsLists(_)
TuplesAsLists(v) ==
    CASE v.py \in {"str", "int", "float"} -> v
      [] v.py \in {"list", "tuple"} ->
            PyList([k \in DOMAIN v.items |-> TuplesAsLists(v.items[k])])
      [] v.py = "dict" ->
            PyDict(v.keys, [k \in DOMAIN v.vals |-> TuplesAsLists(v.vals[k])])

\* C6, as stated: deserializing the exported buffer gives the record that was
\* exported.
C6_RoundTripExact ==
    call.stage = "loaded" => call.loaded = call.arg.data

\* C6, amended: deserializing the exported buffer gives the record that was
\* exported with every (word, count) tuple of top_words replaced by a
\* two-element list; the batch_results list is reproduced exactly.
C6_RoundTripUpToTuples ==
    call.stage = "loaded" =>
        /\ call.loaded = TuplesAsLists(call.arg.data)
        /\ call.arg.kind = "batch_results" => call.loaded = call.arg.data

\* A full_data record with top words, exported and read back.
C6_Witness ==
    /\ call.stage = "loaded"
    /\ call.arg.kind = "full_data"
    /\ call.loaded # call.arg.data

\* C7: in a batch run the values reported to the progress bar are 1/N, 2/N,
\* ... in this order, one for each URL handled, kept or skipped; they
\* increase strictly and the last one of a completed batch is N/N; a batch
\* input of blank lines only reports nothing and yields no record.
C7_ProgressPerUrl ==
    /\ progress = [k \in 1..i |-> <<k, Len(urls)>>]
    /\ Len(progress) <= Len(extracted)
    /\ (pressed = "batch") => Len(extracted) <= Len(progress) + 1
    /\ (pressed = "batch" /\ pc \in {"batch_extract", "batch_done"}) =>
          Len(extracted) = Len(progress)
    /\ \A k \in 1..(Len(progress) - 1) :
          progress[k][1] * progress[k + 1][2] < progress[k + 1][1] * progress[k][2]
    /\ BatchCompleted =>
          /\ Len(progress) = Len(urls)
          /\ Len(extracted) = Len(urls)
          /\ progress[Len(progress)][1] = progress[Len(progress)][2]
    /\ (pressed = "batch" /\ pc = "idle" /\ BatchUrls(batch_urls) = <<>>) =>
          /\ progress = <<>>
          /\ batch_results = <<>>
          /\ status_text = NoStatus

\* A completed batch of two URLs of which one was skipped.
C7_Witness ==
    /\ BatchCompleted
    /\ progress = <<<<1, 2>>, <<2, 2>>>>
    /\ Len(batch_results) = 1

EnrichmentOps == {"metadata", "summary", "keywords", "sentiment"}

CallsOf(op, item) == {k \in DOMAIN calls : calls[k].op = op /\ calls[k].item = item}

\* C8: the transcript service is not called for a URL without identifier; a
\* failed extraction surfaces an error and is followed by no metadata fetch
\* and no model call for that URL; every metadata fetch and model call is for
\* a URL whose transcript was extracted; the transcript service is called at
\* most once for each URL handled.
C8_AbortBeforeEnrichment ==
    /\ \A k \in DOMAIN extracted :
          /\ extracted[k].outcome = "no_id" => CallsOf("fetch", extracted[k].item) = {}
          /\ extracted[k].outcome # "returned" =>
                \A op \in EnrichmentOps : CallsOf(op, extracted[k].item) = {}
    /\ Len(errors) = Cardinality({k \in DOMAIN extracted : extracted[k].outcome # "returned"})
    /\ \A k \in DOMAIN calls :
          calls[k].op \in EnrichmentOps =>
              \E e \in DOMAIN extracted :
                  /\ extracted[e].item = calls[k].item
                  /\ extracted[e].outcome = "returned"
    /\ \A k \in DOMAIN extracted :
          Cardinality(CallsOf("fetch", extracted[k].item)) <= 1
    /\ \A j, k \in DOMAIN extracted : extracted[j].item = extracted[k].item => j = k

\* A batch in which one URL had no identifier and another was summarized.
C8_Witness ==
    /\ pressed = "batch"
    /\ \E k \in DOMAIN extracted : extracted[k].outcome = "no_id"
    /\ \E k \in DOMAIN calls : calls[k].op = "summary"
    /\ Len(errors) = 1

\* C9, as stated: the run that a press of an export button triggers, after a
\* successful analysis, offers the exported buffer for download.
C9_ExportOnDemand ==
    (pc = "idle" /\ pressed \in ExportButtons) => downloads # {}

\* C10: a failed summary call for the batch URL at index i ends the run: the
\* index does not advance, progress holds the reports of the URLs before it
\* only, no call is made for a later URL, the completion text is not shown,
\* and the records gathered so far are neither shown nor exportable.
C10_BatchSummaryFailureAborts ==
    (pressed = "batch" /\ calls # <<>> /\ LastCall.op = "summary" /\ LastCall.raised) =>
        /\ exception
        /\ pc = "idle"
        /\ LastCall.item = i + 1
        /\ Len(progress) = i
        /\ Len(extracted) = i + 1
        /\ \A k \in DOMAIN calls : calls[k].item <= i + 1
        /\ status_text # Complete
        /\ table = <<>>
        /\ "export_batch" \notin page
        /\ downloads = {}

\* A batch whose second summary call failed with one record gathered.
C10_Witness ==
    /\ pressed = "batch"
    /\ exception
    /\ i = 1
    /\ Len(batch_results) = 1

=============================================================================
